---- MODULE Spec2Model ----
(***************************************************************************)
(* COpenVROpenGLWidget (OpenVROpenGLWidget.h / OpenVROpenGLWidget.cpp):    *)
(* the camera state (eyes translation and rotation) and the per-frame      *)
(* rendering pipeline of the widget.                                       *)
(*                                                                         *)
(* Floats are modelled by integers.  Angles are degrees and are multiples  *)
(* of a quarter turn, where sines and cosines are -1, 0 or 1, so that the  *)
(* rotation matrices have integer entries; the rounding of the float       *)
(* quaternion arithmetic is not modelled.                                  *)
(***************************************************************************)
EXTENDS Integers, Sequences, FiniteSets, TLC

\* ------------------------------------------------------------------ bounds
\* Stored angles stay within MaxTurns quarter turns of the initial rotation.
MaxTurns == 1
\* Stored translation components stay within MaxPos of zero.
MaxPos == 1
\* Number of tracked device slots besides the headset (the SDK has 64 slots).
MaxDevices == 2

\* --------------------------------------------------------------- constants
Left == 0
Right == 1
Eyes == {Left, Right}
Hands == {Left, Right}

INITIAL_ROTATION == <<0, 180, 0>>
INITIAL_TRANSLATION == <<0, 0, 0>>

\* ------------------------------------------------------------ vector maths
VAdd(a, b) == <<a[1] + b[1], a[2] + b[2], a[3] + b[3]>>

Norm360(a) == a % 360

Cos(a) ==
  CASE Norm360(a) = 0 -> 1
    [] Norm360(a) = 90 -> 0
    [] Norm360(a) = 180 -> -1
    [] Norm360(a) = 270 -> 0

Sin(a) ==
  CASE Norm360(a) = 0 -> 0
    [] Norm360(a) = 90 -> 1
    [] Norm360(a) = 180 -> 0
    [] Norm360(a) = 270 -> -1

\* 3x3 matrices are triples of rows.
MatMul(A, B) ==
  [i \in 1..3 |-> [j \in 1..3 |->
      A[i][1] * B[1][j] + A[i][2] * B[2][j] + A[i][3] * B[3][j]]]

MatVec(A, v) ==
  <<A[1][1] * v[1] + A[1][2] * v[2] + A[1][3] * v[3],
    A[2][1] * v[1] + A[2][2] * v[2] + A[2][3] * v[3],
    A[3][1] * v[1] + A[3][2] * v[2] + A[3][3] * v[3]>>

RotX(a) == << <<1, 0, 0>>, <<0, Cos(a), -Sin(a)>>, <<0, Sin(a), Cos(a)>> >>
RotY(a) == << <<Cos(a), 0, Sin(a)>>, <<0, 1, 0>>, <<-Sin(a), 0, Cos(a)>> >>
RotZ(a) == << <<Cos(a), -Sin(a), 0>>, <<Sin(a), Cos(a), 0>>, <<0, 0, 1>> >>

\* QQuaternion::fromEulerAngles(pitch, yaw, roll): roll about Z, then pitch
\* about X, then yaw about Y.
FromEulerAngles(pitch, yaw, roll) ==
  MatMul(RotY(yaw), MatMul(RotX(pitch), RotZ(roll)))

\* The angles that the camera code hands to fromEulerAngles: the x component
\* of the stored rotation as pitch, y as yaw, z as roll.
AppliedPitch(rot) == rot[1]
AppliedYaw(rot) == rot[2]
AppliedRoll(rot) == rot[3]

\* ------------------------------------------------------------------- state
VARIABLES
  m_cameraTranslation,  \* QVector3D, eyes translation
  m_cameraRotations,    \* QVector3D, eyes rotation angles
  lastCall,             \* the public camera method called last, with its arguments
  m_vrSystem,           \* TRUE when the IVRSystem pointer is not null
  m_eyeInfos,           \* per eye: NullPtr or a CEyeInfos object
  m_controllers,        \* per hand: SControllerInfos
  m_hmdPose,            \* pose of the headset
  glNames,              \* number of GL framebuffer objects created so far
  vrRuntime,            \* what the VR runtime reported to initializeGL
  lifecycle,            \* "constructed", "initialized", "crashed", "destroyed"
  errMessage,           \* the message of the error dialog of InitializeVR
  sceneInitialized,     \* InitializeRendering() was called
  inputsInitialized,    \* InitializeInputs() was called
  frame,                \* the calls made by the last paintGL, in order
  frameVr               \* whether m_vrSystem was set in the last paintGL

cameraVars == <<m_cameraTranslation, m_cameraRotations, lastCall>>
frameVars == <<m_vrSystem, m_eyeInfos, m_controllers, m_hmdPose, glNames,
               vrRuntime, lifecycle, errMessage, sceneInitialized,
               inputsInitialized, frame, frameVr>>
vars == <<m_cameraTranslation, m_cameraRotations, lastCall,
          m_vrSystem, m_eyeInfos, m_controllers, m_hmdPose, glNames,
          vrRuntime, lifecycle, errMessage, sceneInitialized,
          inputsInitialized, frame, frameVr>>

\* ------------------------------------------------------------ input ranges
Angles == {t * 90 : t \in (-MaxTurns)..MaxTurns}
Coords == (-MaxPos)..MaxPos

InRot(v) == \A i \in 1..3 : v[i] - INITIAL_ROTATION[i] \in Angles
InPos(v) == v[1] \in Coords /\ v[2] \in Coords /\ v[3] \in Coords

\* Arguments of RotateEyes: (i_yaw, i_pitch, i_roll).
RotationInputs ==
  {<<90, 0, 0>>, <<0, 90, 0>>, <<0, 0, 90>>,
   <<-90, 0, 0>>, <<0, -90, 0>>, <<0, 0, -90>>}

\* Arguments of TranslateEyes: (i_deltaX, i_deltaY, i_deltaZ).
TranslationInputs ==
  {<<1, 0, 0>>, <<0, 1, 0>>, <<0, 0, 1>>,
   <<-1, 0, 0>>, <<0, -1, 0>>, <<0, 0, -1>>, <<1, 1, 0>>}

NoArgs == <<0, 0, 0>>

\* ---------------------------------------------------------- camera methods
GetTranslations == m_cameraTranslation

GetRotations == m_cameraRotations

\* The camera matrix is affine: lin is its upper-left 3x3 block and col its
\* fourth column (its last row is 0 0 0 1).  rotate() then translate()
\* gives R * T(t).
CameraMatrixOf(rot, trans) ==
  LET R == FromEulerAngles(AppliedPitch(rot), AppliedYaw(rot), AppliedRoll(rot))
  IN  [lin |-> R, col |-> MatVec(R, trans)]

GetCameraMatrix == CameraMatrixOf(m_cameraRotations, m_cameraTranslation)

TranslatedBy(rot, trans, delta) ==
  LET rollPitchYaw ==
        FromEulerAngles(AppliedPitch(rot), AppliedYaw(rot), AppliedRoll(rot))
      translation == MatVec(rollPitchYaw, delta)
  IN  VAdd(trans, translation)

TranslateEyes(delta) ==
  /\ InPos(TranslatedBy(m_cameraRotations, m_cameraTranslation, delta))
  /\ m_cameraTranslation' =
       TranslatedBy(m_cameraRotations, m_cameraTranslation, delta)
  /\ lastCall' = [op |-> "TranslateEyes", args |-> delta]
  /\ UNCHANGED m_cameraRotations
  /\ UNCHANGED frameVars

\* A reset of the positions that resets the whole camera.
ResetEyesPositions_ResetsAll ==
  /\ m_cameraTranslation' = INITIAL_TRANSLATION
  /\ m_cameraRotations' = INITIAL_ROTATION
  /\ lastCall' = [op |-> "ResetEyesPositions", args |-> NoArgs]
  /\ UNCHANGED frameVars

ResetEyesPositions ==
  /\ m_cameraTranslation' = INITIAL_TRANSLATION
  /\ lastCall' = [op |-> "ResetEyesPositions", args |-> NoArgs]
  /\ UNCHANGED m_cameraRotations
  /\ UNCHANGED frameVars

RotatedBy(rot, i_yaw, i_pitch, i_roll) == VAdd(rot, <<i_yaw, i_pitch, i_roll>>)

RotateEyes(i_yaw, i_pitch, i_roll) ==
  /\ InRot(RotatedBy(m_cameraRotations, i_yaw, i_pitch, i_roll))
  /\ m_cameraRotations' = RotatedBy(m_cameraRotations, i_yaw, i_pitch, i_roll)
  /\ lastCall' = [op |-> "RotateEyes", args |-> <<i_yaw, i_pitch, i_roll>>]
  /\ UNCHANGED m_cameraTranslation
  /\ UNCHANGED frameVars

ResetEyesRotations ==
  /\ m_cameraRotations' = INITIAL_ROTATION
  /\ lastCall' = [op |-> "ResetEyesRotations", args |-> NoArgs]
  /\ UNCHANGED m_cameraTranslation
  /\ UNCHANGED frameVars

\* ------------------------------------------------------- objects and events
\* A null pointer; every object has null = FALSE.
NullPtr == [null |-> TRUE]

\* QMatrix4x4 values that come from the runtime are tokens: what was converted
\* by vrMatrixToQt (the pose of device `of`, or the eye-to-head transform or
\* the projection of eye `of`) and whether inverted() was applied.  A
\* QMatrix4x4 is constructed as the identity.
Matrix(kind, of, inv) == [kind |-> kind, of |-> of, inverted |-> inv]
Identity == Matrix("identity", 0, FALSE)

\* QOpenGLFramebufferObject: the GL names it owns and its format.
Framebuffer(name, size, samples, attachment, valid) ==
  [null |-> FALSE, handle |-> name, texture |-> name, size |-> size,
   samples |-> samples, attachment |-> attachment, valid |-> valid]

\* CEyeInfos::CEyeInfos(i_eyeSize), when `created` framebuffers exist already;
\* frameOk and resolveOk say whether GL could build each framebuffer.
NewEyeInfos(i_eyeSize, created, frameOk, resolveOk) ==
  [null |-> FALSE,
   m_size |-> i_eyeSize,
   m_projection |-> Identity,
   m_view |-> Identity,
   m_frameBuffer |-> Framebuffer(created + 1, i_eyeSize, 4, "Depth", frameOk),
   m_resolveBuffer |->
     Framebuffer(created + 2, i_eyeSize, 0, "NoAttachment", resolveOk)]

\* CEyeInfos::IsValid()
IsValid(eyeInfos) ==
  /\ ~eyeInfos.m_frameBuffer.null
  /\ ~eyeInfos.m_resolveBuffer.null
  /\ eyeInfos.m_frameBuffer.valid
  /\ eyeInfos.m_resolveBuffer.valid

\* A Texture() that hands out the texture of the render target.
Texture_OfFrameBuffer(eyeInfos) == eyeInfos.m_frameBuffer.texture

\* CEyeInfos::Texture()
Texture(eyeInfos) == eyeInfos.m_resolveBuffer.texture

\* The framebuffer that CEyeInfos::SetSurface() binds.
SurfaceOf(eyeInfos) == eyeInfos.m_frameBuffer.handle

\* The widget's own framebuffer, bound when no framebuffer object is.
WidgetSurface == 0

\* One call made by paintGL: eye is -1 and fbo and texture are 0 where the
\* call has none.  For Render and Draw, fbo is the framebuffer bound at the
\* call; for SetSurface the one it binds; for UnsetSurface the multisampled
\* source and texture the target of the blit; for Submit, texture is the
\* texture handed to the compositor.
Call(op, eye, fbo, texture) ==
  [op |-> op, eye |-> eye, fbo |-> fbo, texture |-> texture]

\* ------------------------------------------------------------ the runtime
DeviceKinds ==
  {[class |-> "Invalid", role |-> "Invalid", modelLoads |-> FALSE]} \cup
  [class : {"Controller"}, role : {"LeftHand", "RightHand"},
   modelLoads : BOOLEAN]

Devices == 1..MaxDevices

RenderTargetSizes == {<<2, 2>>, <<3, 2>>}

\* What InitializeVR finds: the first check that fails, or "Ok".
VrStates == {"NoRuntime", "NoHmd", "InitError", "NoCompositor", "Ok"}

NoRuntimeYet ==
  [state |-> "NoRuntime", size |-> <<0, 0>>,
   devices |-> [d \in Devices |->
                  [class |-> "Invalid", role |-> "Invalid", modelLoads |-> FALSE]]]

\* ------------------------------------------------------------ construction
NoController ==
  [m_rmat4Pose |-> Identity, m_pRenderModel |-> NullPtr,
   m_bShowController |-> FALSE]

Init ==
  /\ m_cameraTranslation = INITIAL_TRANSLATION
  /\ m_cameraRotations = INITIAL_ROTATION
  /\ lastCall = [op |-> "COpenVROpenGLWidget", args |-> NoArgs]
  /\ m_vrSystem = FALSE
  /\ m_eyeInfos = [eye \in Eyes |-> NullPtr]
  /\ m_controllers = [hand \in Hands |-> NoController]
  /\ m_hmdPose = Identity
  /\ glNames = 0
  /\ vrRuntime = NoRuntimeYet
  /\ lifecycle = "constructed"
  /\ errMessage = ""
  /\ sceneInitialized = FALSE
  /\ inputsInitialized = FALSE
  /\ frame = <<>>
  /\ frameVr = FALSE

\* ------------------------------------------------------------ initializeGL
\* InitializeVR(): the error message it pops up, "" when it succeeds.
InitializeVRMessage(state) ==
  CASE state = "NoRuntime" -> "No VR runtime installed."
    [] state = "NoHmd" -> "Any headset found."
    [] state = "InitError" -> "Unable to init VR runtime"
    [] state = "NoCompositor" -> "Compositor initialization failed"
    [] state = "Ok" -> ""

\* InitializeEyesRendering(): both eyes are created, whatever their validity.
\* valid[eye] is the pair (frame buffer built, resolve buffer built).
EyesCreated(created, size, valid) ==
  [eye \in Eyes |->
     NewEyeInfos(size, created + 2 * eye, valid[eye][1], valid[eye][2])]

\* CRenderModel::LoadModel(): nullptr when the model or its texture does not
\* load.
LoadModel(device, kind) ==
  IF kind.modelLoads THEN [null |-> FALSE, m_sModelName |-> device] ELSE NullPtr

HandIndex(kind) == IF kind.role = "LeftHand" THEN Left ELSE Right

\* The loop of InitializeControllers() from device i on.
RECURSIVE ControllersFrom(_, _, _)
ControllersFrom(i, devices, controllers) ==
  IF i > MaxDevices THEN controllers
  ELSE IF devices[i].class # "Controller"
       THEN ControllersFrom(i + 1, devices, controllers)
       ELSE ControllersFrom(i + 1, devices,
              [controllers EXCEPT ![HandIndex(devices[i])] =
                 [@ EXCEPT !.m_pRenderModel = LoadModel(i, devices[i]),
                           !.m_bShowController = TRUE]])

initializeGL(state, size, valid, devices) ==
  /\ lifecycle = "constructed"
  /\ lifecycle' = "initialized"
  /\ vrRuntime' =
       IF state = "Ok"
       THEN [state |-> state, size |-> size, devices |-> devices]
       ELSE [vrRuntime EXCEPT !.state = state]
  /\ errMessage' = InitializeVRMessage(state)
  /\ m_vrSystem' = (state = "Ok")
  /\ IF state # "Ok"
     THEN UNCHANGED <<m_eyeInfos, glNames, m_controllers,
                      inputsInitialized, sceneInitialized>>
     ELSE /\ m_eyeInfos' = EyesCreated(glNames, size, valid)
          /\ glNames' = glNames + 4
          /\ IF \A eye \in Eyes : IsValid(EyesCreated(glNames, size, valid)[eye])
             THEN /\ m_controllers' = ControllersFrom(1, devices, m_controllers)
                  /\ inputsInitialized' = TRUE
                  /\ sceneInitialized' = TRUE
             ELSE UNCHANGED <<m_controllers, inputsInitialized,
                              sceneInitialized>>
  /\ UNCHANGED <<m_hmdPose, frame, frameVr>>
  /\ UNCHANGED cameraVars

\* ----------------------------------------------------------------- paintGL
\* What WaitGetPoses reports for a frame: bPoseIsValid of every device slot
\* (0 is the headset).
PoseReports == [0..MaxDevices -> BOOLEAN]

\* CEyeInfos::SetTransformMatrix for both eyes, as UpdatePositions() calls it.
EyesUpdated(eyeInfos) ==
  [eye \in Eyes |->
     [eyeInfos[eye] EXCEPT !.m_view = Matrix("eyeToHead", eye, TRUE),
                           !.m_projection = Matrix("projection", eye, FALSE)]]

\* The device loop of UpdatePositions() from slot i on, for the controllers.
RECURSIVE ControllerPosesFrom(_, _, _, _)
ControllerPosesFrom(i, devices, poses, controllers) ==
  IF i > MaxDevices THEN controllers
  ELSE IF poses[i] /\ devices[i].class = "Controller"
       THEN ControllerPosesFrom(i + 1, devices, poses,
              [controllers EXCEPT ![HandIndex(devices[i])].m_rmat4Pose =
                 Matrix("pose", i, FALSE)])
       ELSE ControllerPosesFrom(i + 1, devices, poses, controllers)

\* The device loop of UpdatePositions() for the headset, slot 0.
HmdPoseUpdated(poses, hmdPose) ==
  IF poses[0] THEN Matrix("pose", 0, TRUE) ELSE hmdPose

\* renderEye(i_eye) dereferences m_eyeInfos[i_eye] and the render model of
\* every controller that is shown: a null one is undefined behaviour.
RenderEyeFaults(eyeInfos, controllers, i_eye) ==
  \/ eyeInfos[i_eye].null
  \/ \E hand \in Hands : /\ controllers[hand].m_bShowController
                         /\ controllers[hand].m_pRenderModel.null

DrawCall(controllers, hand, i_eye, bound) ==
  IF controllers[hand].m_bShowController
  THEN <<Call("Draw", hand, bound, 0)>>
  ELSE <<>>

\* The calls of renderEye(i_eye) with framebuffer `bound` bound.
RenderEyeCalls(controllers, i_eye, bound) ==
  DrawCall(controllers, Left, i_eye, bound)
  \o DrawCall(controllers, Right, i_eye, bound)
  \o <<Call("Render", i_eye, bound, 0)>>

\* The calls of a renderEye(i_eye) that stops at its first null dereference.
RenderEyeUntilFault(eyeInfos, controllers, i_eye, bound) ==
  IF eyeInfos[i_eye].null THEN <<>>
  ELSE IF /\ controllers[Left].m_bShowController
          /\ controllers[Left].m_pRenderModel.null
       THEN <<>>
       ELSE DrawCall(controllers, Left, i_eye, bound)

\* The outcomes of a null dereference: the process stops there, or the call
\* goes on as if the object were there.
FaultOutcomes == {"crash", "continue"}

\* Whether paintGL stops in a renderEye: every renderEye of a frame sees the
\* same controllers, so the first one reached decides.
PaintCrashes(vr, eyeInfos, controllers, outcome) ==
  /\ outcome = "crash"
  /\ RenderEyeFaults(eyeInfos, controllers, IF vr THEN Left ELSE Right)

\* SetSurface, renderEye, UnsetSurface for one eye.
EyePass(eyeInfos, controllers, eye) ==
  <<Call("SetSurface", eye, SurfaceOf(eyeInfos[eye]), 0)>>
  \o RenderEyeCalls(controllers, eye, SurfaceOf(eyeInfos[eye]))
  \o <<Call("UnsetSurface", eye, eyeInfos[eye].m_frameBuffer.handle,
            eyeInfos[eye].m_resolveBuffer.texture)>>

SubmitCall(eyeInfos, eye) == Call("Submit", eye, 0, Texture(eyeInfos[eye]))

\* The calls of one paintGL, in order.
PaintCalls(vr, eyeInfos, controllers, outcome) ==
  IF PaintCrashes(vr, eyeInfos, controllers, outcome)
  THEN IF vr
       THEN <<Call("UpdatePositions", -1, 0, 0), Call("UpdateInputs", -1, 0, 0),
              Call("UpdateRendering", -1, 0, 0),
              Call("SetSurface", Left, SurfaceOf(eyeInfos[Left]), 0)>>
            \o RenderEyeUntilFault(eyeInfos, controllers, Left,
                                   SurfaceOf(eyeInfos[Left]))
       ELSE RenderEyeUntilFault(eyeInfos, controllers, Right, WidgetSurface)
  ELSE (IF vr
        THEN <<Call("UpdatePositions", -1, 0, 0), Call("UpdateInputs", -1, 0, 0),
               Call("UpdateRendering", -1, 0, 0)>>
             \o EyePass(eyeInfos, controllers, Left)
             \o EyePass(eyeInfos, controllers, Right)
        ELSE <<>>)
       \o RenderEyeCalls(controllers, Right, WidgetSurface)
       \o (IF vr
           THEN <<SubmitCall(eyeInfos, Left), SubmitCall(eyeInfos, Right)>>
           ELSE <<>>)
       \o <<Call("update", -1, 0, 0)>>

paintGL(poses, outcome) ==
  /\ lifecycle = "initialized"
  /\ LET eyeInfos == IF m_vrSystem THEN EyesUpdated(m_eyeInfos) ELSE m_eyeInfos
         controllers ==
           IF m_vrSystem
           THEN ControllerPosesFrom(1, vrRuntime.devices, poses, m_controllers)
           ELSE m_controllers
     IN  /\ m_eyeInfos' = eyeInfos
         /\ m_controllers' = controllers
         /\ m_hmdPose' =
              IF m_vrSystem THEN HmdPoseUpdated(poses, m_hmdPose) ELSE m_hmdPose
         /\ frame' = PaintCalls(m_vrSystem, eyeInfos, controllers, outcome)
         /\ lifecycle' =
              IF PaintCrashes(m_vrSystem, eyeInfos, controllers, outcome)
              THEN "crashed" ELSE "initialized"
  /\ frameVr' = m_vrSystem
  /\ UNCHANGED <<m_vrSystem, glNames, vrRuntime, errMessage,
                 sceneInitialized, inputsInitialized>>
  /\ UNCHANGED cameraVars

\* -------------------------------------------------------------- destruction
\* ~COpenVROpenGLWidget(): ShutDownVR() deletes the eyes and the render
\* models and shuts the runtime down.
ShutDownVR ==
  /\ lifecycle \in {"constructed", "initialized"}
  /\ lifecycle' = "destroyed"
  /\ m_vrSystem' = FALSE
  /\ m_eyeInfos' = [eye \in Eyes |-> NullPtr]
  /\ m_controllers' =
       [hand \in Hands |-> [m_controllers[hand] EXCEPT !.m_pRenderModel = NullPtr]]
  /\ UNCHANGED <<m_hmdPose, glNames, vrRuntime, errMessage, sceneInitialized,
                 inputsInitialized, frame, frameVr>>
  /\ UNCHANGED cameraVars

\* ---------------------------------------------------------- specifications
CameraNext ==
  \/ \E delta \in TranslationInputs : TranslateEyes(delta)
  \/ ResetEyesPositions
  \/ \E r \in RotationInputs : RotateEyes(r[1], r[2], r[3])
  \/ ResetEyesRotations

FrameNext ==
  \/ \E state \in VrStates, size \in RenderTargetSizes,
        valid \in [Eyes -> BOOLEAN \X BOOLEAN],
        devices \in [Devices -> DeviceKinds] :
       initializeGL(state, size, valid, devices)
  \/ \E poses \in PoseReports, outcome \in FaultOutcomes :
       paintGL(poses, outcome)
  \/ ShutDownVR

Next == CameraNext \/ FrameNext

\* The camera methods alone.
SpecCamera == Init /\ [][CameraNext]_vars

\* The widget's life cycle alone: initializeGL, the frames, destruction.
SpecFrame == Init /\ [][FrameNext]_vars

Spec == Init /\ [][Next]_vars

\* ------------------------------------------------------------------ claims
ZeroVector == <<0, 0, 0>>

\* C1: after ResetEyesRotations(), whatever calls came before it,
\* GetRotations() returns (0, 0, 0).
C1_ResetRotationsGivesZero ==
  lastCall.op = "ResetEyesRotations" => GetRotations = ZeroVector

\* C2: TranslateEyes(dx, dy, dz) adds (dx, dy, dz) to what GetTranslations()
\* returns, component by component, in every camera state.
C2_TranslateAddsDelta ==
  [][lastCall'.op = "TranslateEyes" =>
       m_cameraTranslation' = VAdd(m_cameraTranslation, lastCall'.args)]_vars

\* C3: RotateEyes(i_yaw, i_pitch, i_roll) adds i_yaw to the angle that the
\* camera applies about Y, i_pitch to the one applied about X and i_roll to
\* the one applied about Z.
C3_RotateAxes ==
  [][lastCall'.op = "RotateEyes" =>
       /\ AppliedYaw(m_cameraRotations') =
            AppliedYaw(m_cameraRotations) + lastCall'.args[1]
       /\ AppliedPitch(m_cameraRotations') =
            AppliedPitch(m_cameraRotations) + lastCall'.args[2]
       /\ AppliedRoll(m_cameraRotations') =
            AppliedRoll(m_cameraRotations) + lastCall'.args[3]]_vars

\* C4: after ResetEyesPositions(), whatever calls came before it,
\* GetTranslations() returns (0, 0, 0) and GetRotations() returns what it
\* returned just before the reset.
C4_ResetPositionsKeepsRotations ==
  [][lastCall'.op = "ResetEyesPositions" =>
       /\ m_cameraTranslation' = ZeroVector
       /\ m_cameraRotations' = m_cameraRotations]_vars

\* C4 witness: a reset of the positions has acted on a camera that was
\* rotated away from its initial rotation.
C4_Witness ==
  /\ lastCall.op = "ResetEyesPositions"
  /\ GetTranslations = ZeroVector
  /\ GetRotations # INITIAL_ROTATION

\* A paintGL has run (one that stops at once leaves no call).
Painted == frame # <<>> \/ lifecycle = "crashed"

\* The calls of the frame that the orchestration is about, each as
\* (call, eye, where it renders).
OrchestrationOps ==
  {"UpdatePositions", "UpdateInputs", "UpdateRendering", "Render", "Submit",
   "update"}

Shape(c) ==
  <<c.op, c.eye,
    IF c.op # "Render" THEN "none"
    ELSE IF c.fbo = WidgetSurface THEN "widget" ELSE "headset">>

RECURSIVE Orchestration(_)
Orchestration(calls) ==
  IF calls = <<>> THEN <<>>
  ELSE IF Head(calls).op \in OrchestrationOps
       THEN <<Shape(Head(calls))>> \o Orchestration(Tail(calls))
       ELSE Orchestration(Tail(calls))

VrFrame ==
  << <<"UpdatePositions", -1, "none">>, <<"UpdateInputs", -1, "none">>,
     <<"UpdateRendering", -1, "none">>,
     <<"Render", Left, "headset">>, <<"Render", Right, "headset">>,
     <<"Render", Right, "widget">>,
     <<"Submit", Left, "none">>, <<"Submit", Right, "none">>,
     <<"update", -1, "none">> >>

MirrorFrame == << <<"Render", Right, "widget">>, <<"update", -1, "none">> >>

\* C5: a paintGL with the VR system active performs UpdatePositions,
\* UpdateInputs, UpdateRendering, the Left and the Right eye render into the
\* headset targets, one mirror render of the Right eye into the widget, then
\* Submit for Left and Right; one with no VR system performs only the mirror
\* render; every paintGL ends with update().
C5_FrameOrchestration ==
  Painted =>
    Orchestration(frame) = (IF frameVr THEN VrFrame ELSE MirrorFrame)

\* InitializeEyesRendering() returned true and the eyes still exist.
EyesRenderingOk ==
  /\ lifecycle \in {"initialized", "crashed"}
  /\ m_vrSystem
  /\ \A eye \in Eyes : ~m_eyeInfos[eye].null /\ IsValid(m_eyeInfos[eye])

FramebuffersOfEyes ==
  {m_eyeInfos[eye].m_frameBuffer.handle : eye \in Eyes} \cup
  {m_eyeInfos[eye].m_resolveBuffer.handle : eye \in Eyes}

\* C6: after a successful InitializeEyesRendering each eye owns one
\* multisampled framebuffer, the one SetSurface binds, and one
\* non-multisampled resolve framebuffer, both of the recommended size, and
\* the texture that Texture() returns and paintGL submits is the resolve
\* framebuffer's, never the multisampled one's.
C6_OneMultisampledOneResolvePerEye ==
  EyesRenderingOk =>
    /\ glNames = 4
    /\ Cardinality(FramebuffersOfEyes) = 4
    /\ \A eye \in Eyes :
         /\ m_eyeInfos[eye].m_frameBuffer.samples > 0
         /\ m_eyeInfos[eye].m_resolveBuffer.samples = 0
         /\ m_eyeInfos[eye].m_frameBuffer.size = vrRuntime.size
         /\ m_eyeInfos[eye].m_resolveBuffer.size = vrRuntime.size
         /\ SurfaceOf(m_eyeInfos[eye]) = m_eyeInfos[eye].m_frameBuffer.handle
         /\ Texture(m_eyeInfos[eye]) = m_eyeInfos[eye].m_resolveBuffer.texture
         /\ Texture(m_eyeInfos[eye]) # m_eyeInfos[eye].m_frameBuffer.texture
    /\ \A i \in 1..Len(frame) :
         /\ frame[i].op = "SetSurface" =>
              frame[i].fbo = m_eyeInfos[frame[i].eye].m_frameBuffer.handle
         /\ frame[i].op = "Submit" =>
              /\ frame[i].texture =
                   m_eyeInfos[frame[i].eye].m_resolveBuffer.texture
              /\ \A eye \in Eyes :
                   frame[i].texture # m_eyeInfos[eye].m_frameBuffer.texture

\* C6 witness: the eyes were created with success and a frame submitted the
\* textures of both eyes.
C6_Witness ==
  /\ EyesRenderingOk
  /\ \A eye \in Eyes :
       \E i \in 1..Len(frame) : frame[i].op = "Submit" /\ frame[i].eye = eye

====
